---- MODULE Spec2Model ----
(***************************************************************************)
(* Market-Basket-Suite: the transaction encoder, the frequent-itemset      *)
(* miners, the rule generator and the pages that drive them.               *)
(*                                                                         *)
(* Product names are numbered in their ascending sort order, so that       *)
(* x < y on numbers stands for the string comparison of the names.         *)
(* Floating-point supports, confidences and lifts are modelled as exact    *)
(* rationals <<numerator, denominator>> in lowest terms.                   *)
(***************************************************************************)
EXTENDS Integers, Sequences, FiniteSets, TLC

VARIABLES
    data,               \* st.session_state.data: the uploaded frame, a list of rows
    column_mapping,     \* st.session_state.column_mapping
    data_processor,     \* st.session_state.data_processor: the DataProcessor's fields
    processed_data,     \* st.session_state.processed_data: None or a record
    analysis_results,   \* st.session_state.analysis_results: {} (EmptyDict) or a record
    analysis_complete,  \* st.session_state.analysis_complete
    export_ready,       \* st.session_state.export_ready
    current_step,       \* st.session_state.current_step
    outcome,            \* what the last handler run ended with
    min_support,        \* Analysis Setup script: min_support, as the miner is given it
    max_len,            \* Analysis Setup script: max_len, as the miner is given it
    total_transactions, \* Analysis Setup script: len(processed['transactions'])
    suggested_support,  \* Analysis Setup script: the Parameter Advisor's result
    frequent_itemsets,  \* miner harness: algorithm -> the call's state and table
    presses,            \* harness: presses of the Execute button so far
    session_keys        \* the keys st.session_state holds

vars == <<data, column_mapping, data_processor, processed_data, analysis_results,
          analysis_complete, export_ready, current_step, outcome, min_support,
          max_len, total_transactions, suggested_support, frequent_itemsets,
          presses, session_keys>>

\* None, and the empty dict {}.
None == [None |-> TRUE]
EmptyDict == <<>>

\* The keys the pages keep in st.session_state.  A variable whose key is
\* not in session_keys holds the value of a session that never had the key.
SessionKeys ==
    {"data", "column_mapping", "data_processor", "processed_data",
     "analysis_results", "analysis_complete", "export_ready", "current_step"}

\* The product names the inputs are drawn from (those of the specification's
\* concrete scenario), numbered in their sort order.
Bread == 1
Eggs == 2
Milk == 3

\* The item universe.
Items == {Bread, Eggs, Milk}

\* The most transactions an input transaction list holds.
MaxTx == 4

----------------------------------------------------------------------------
\* Generic helpers.

Range(s) == {s[i] : i \in DOMAIN s}

RECURSIVE SortedSeq(_)
SortedSeq(S) ==
    IF S = {} THEN <<>>
    ELSE LET m == CHOOSE x \in S : \A y \in S : x <= y
         IN  <<m>> \o SortedSeq(S \ {m})

RECURSIVE Flatten(_)
Flatten(ss) == IF Len(ss) = 0 THEN <<>> ELSE Head(ss) \o Flatten(Tail(ss))

RECURSIVE SetToSeq(_)
SetToSeq(S) ==
    IF S = {} THEN <<>>
    ELSE LET m == CHOOSE x \in S : TRUE IN <<m>> \o SetToSeq(S \ {m})

RECURSIVE SumSeq(_)
SumSeq(s) == IF Len(s) = 0 THEN 0 ELSE Head(s) + SumSeq(Tail(s))

RECURSIVE GCD(_, _)
GCD(a, b) == IF b = 0 THEN a ELSE GCD(b, a % b)

\* n / d as a float, kept exact (d > 0, n >= 0).
Rat(n, d) == LET g == GCD(n, d) IN <<n \div g, d \div g>>
RDiv(x, y) == Rat(x[1] * y[2], x[2] * y[1])
RGeq(x, y) == x[1] * y[2] >= y[1] * x[2]
RGt(x, y) == x[1] * y[2] > y[1] * x[2]

----------------------------------------------------------------------------
\* mlxtend.preprocessing.TransactionEncoder and the DataFrame made of it.

\* te.fit(transactions).columns_: the distinct items, sorted ascending.
TE_fit(transactions) ==
    SortedSeq(UNION {Range(transactions[i]) : i \in DOMAIN transactions})

\* te.transform(transactions): cell (r, c) is True iff columns_[c] occurs in row r.
TE_transform(columns, transactions) ==
    [r \in 1..Len(transactions) |->
        [c \in 1..Len(columns) |->
            \E j \in DOMAIN transactions[r] : transactions[r][j] = columns[c]]]

\* te = TransactionEncoder(); te_array = te.fit(T).transform(T);
\* pd.DataFrame(te_array, columns=te.columns_)
EncodeBasket(transactions) ==
    LET columns == TE_fit(transactions)
    IN  [columns |-> columns, values |-> TE_transform(columns, transactions)]

----------------------------------------------------------------------------
\* DataProcessor (data_processor.py) and the uploaded frame.  A frame is a
\* list of rows [TransactionID, Product]; the optional columns are not mapped.

\* A cell of a frame is NaN (missing) or holds one value.
NaN == <<>>
Cell(v) == <<v>>
ValueOf(cell) == cell[1]

\* A Quantity cell that holds the float inf (written as 1/0), which
\* pd.to_numeric leaves as it is and pd.isna does not count as missing.
Infinite == <<1, 0>>

\* Product texts as uploaded: the name as cleaning leaves it ("Bread"), the
\* same name in other case, padding or punctuation ("  bread! "), and a text
\* with no word character in it ("!!").
Text(p) == [name |-> Cell(p), tidy |-> TRUE]
Untidy(p) == [name |-> Cell(p), tidy |-> FALSE]
Blank == [name |-> NaN, tidy |-> FALSE]

\* clean_text_data on one product cell: the cleaned name, or NaN for "".
clean_text_data(cell) == ValueOf(cell).name

\* The column mapping of the Column Mapping page, with the quantity column
\* mapped or not ("None" stands for Python's None); the optional columns
\* that process_data only copies are left out.
Mapping(quantity) ==
    [transaction_id |-> "TransactionID", product_item |-> "Product",
     quantity |-> quantity]

\* DataProcessor.__init__
DataProcessor ==
    [processed_data |-> None, transactions |-> None, basket_encoded |-> None,
     preprocessing_steps |-> <<>>]

\* Step 1: the mapped columns of the frame.
ExtractColumns(df, mapping) ==
    [i \in DOMAIN df |->
        IF mapping.quantity = "None"
        THEN [TransactionID |-> df[i].TransactionID, Product |-> df[i].Product]
        ELSE [TransactionID |-> df[i].TransactionID, Product |-> df[i].Product,
              Quantity |-> df[i].Quantity]]

\* working_df.dropna(subset=['TransactionID', 'Product'])
DropNa(df) ==
    SelectSeq(df, LAMBDA row : row.TransactionID # NaN /\ row.Product # NaN)

\* Step 4: clean the product texts, drop the rows whose product became NaN;
\* the ids and products of the rows that stay are plain values.
CleanRows(df) ==
    LET cleaned == [i \in DOMAIN df |->
                       [df[i] EXCEPT !.Product = clean_text_data(df[i].Product)]]
        kept == SelectSeq(cleaned, LAMBDA row : row.Product # NaN)
    IN  [i \in DOMAIN kept |->
            [kept[i] EXCEPT !.TransactionID = ValueOf(kept[i].TransactionID),
                            !.Product = ValueOf(kept[i].Product)]]

\* int(row['Quantity']) raises OverflowError on a row whose quantity is inf.
QuantityRaises(df, mapping) ==
    /\ mapping.quantity # "None"
    /\ \E i \in DOMAIN df : df[i].Quantity = Infinite

\* qty = max(1, int(row['Quantity'])) if not pd.isna(row['Quantity']) else 1
\* qty = min(qty, 10)
RowQuantity(row) ==
    LET qty == IF row.Quantity = NaN THEN 1
               ELSE IF ValueOf(row.Quantity) >= 1 THEN ValueOf(row.Quantity)
               ELSE 1
    IN  IF qty <= 10 THEN qty ELSE 10

\* expanded_rows: each row qty times, without its Quantity.
ExpandedRows(df) ==
    Flatten([i \in DOMAIN df |->
                [c \in 1..RowQuantity(df[i]) |->
                    [TransactionID |-> df[i].TransactionID,
                     Product |-> df[i].Product]]])

\* Step 5: with a Quantity column the rows are expanded; the expanded frame
\* replaces working_df only if it is longer.
HandleQuantities(df, mapping) ==
    IF mapping.quantity = "None" THEN df
    ELSE IF Len(ExpandedRows(df)) > Len(df) THEN ExpandedRows(df)
    ELSE df

\* Mutant: drop_duplicates without the subset, on whole rows.
DropDuplicates_WholeRows(df) ==
    LET first(i) == \A j \in 1..(i - 1) : df[j] # df[i]
        keep == SelectSeq([i \in DOMAIN df |-> i], first)
    IN  [k \in DOMAIN keep |-> df[keep[k]]]

\* working_df.drop_duplicates(subset=['TransactionID', 'Product']): the first
\* row of each (TransactionID, Product) stays.
DropDuplicates(df) ==
    LET first(i) == \A j \in 1..(i - 1) :
                       \/ df[j].TransactionID # df[i].TransactionID
                       \/ df[j].Product # df[i].Product
        keep == SelectSeq([i \in DOMAIN df |-> i], first)
    IN  [k \in DOMAIN keep |-> df[keep[k]]]

\* working_df.groupby('TransactionID').size(), as a function of the ids.
GroupSizes(df) ==
    [t \in {df[i].TransactionID : i \in DOMAIN df} |->
        Cardinality({i \in DOMAIN df : df[i].TransactionID = t})]

\* df[df['TransactionID'].isin(ids with size >= min_size)]
FilterBySize(df, min_size) ==
    LET sizes == GroupSizes(df)
    IN  SelectSeq(df, LAMBDA row : sizes[row.TransactionID] >= min_size)

\* df.groupby('TransactionID')['Product'].apply(list).tolist(): the groups in
\* ascending order of the id, each group's products in row order.
GroupTransactions(df) ==
    LET ids == SortedSeq({df[i].TransactionID : i \in DOMAIN df})
        rowsOf(t) == SelectSeq(df, LAMBDA row : row.TransactionID = t)
    IN  [g \in DOMAIN ids |->
            [j \in DOMAIN rowsOf(ids[g]) |-> rowsOf(ids[g])[j].Product]]

\* Mutant: the except block returns False without recording the error.
ProcessingError_NoStep(self, steps) ==
    [ret |-> FALSE, self |-> [self EXCEPT !.preprocessing_steps = steps]]

\* except Exception as e: the error is appended to the steps (the list the
\* call began anew), False is returned; the fields assigned so far stay.
ProcessingError(self, steps) ==
    [ret |-> FALSE,
     self |-> [self EXCEPT !.preprocessing_steps = Append(steps, "error")]]

\* process_data(df, column_mapping): the return value and the processor's
\* fields after the call.  The steps are recorded by short names.
process_data(self, df, mapping) ==
    LET na_dropped == DropNa(ExtractColumns(df, mapping))
        cleaned == CleanRows(na_dropped)
        expanded == HandleQuantities(cleaned, mapping)
        deduplicated == DropDuplicates(expanded)
        working_df == FilterBySize(deduplicated, 1)
        transactions == GroupTransactions(working_df)
        basket_encoded == EncodeBasket(transactions)
        steps1 == <<"extracted">>
        steps4 == steps1 \o <<"removed_missing", "cleaned">>
        steps5 == steps4 \o (IF Len(expanded) > Len(cleaned)
                             THEN <<"expanded">> ELSE <<>>)
        steps6 == steps5 \o (IF Len(deduplicated) # Len(expanded)
                             THEN <<"removed_duplicates">> ELSE <<>>)
        steps9 == steps6 \o <<"created", "encoded">>
    IN  IF Len(na_dropped) = 0
        THEN ProcessingError(self, steps1)
        ELSE IF QuantityRaises(cleaned, mapping)
        THEN ProcessingError(self, steps4)
        ELSE IF Len(transactions) = 0
        THEN ProcessingError([self EXCEPT !.transactions = transactions], steps6)
        ELSE [ret |-> TRUE,
              self |-> [processed_data |->
                            [clean_df |-> working_df,
                             transactions |-> transactions,
                             basket_df |-> basket_encoded,
                             preprocessing_steps |-> steps9],
                        transactions |-> transactions,
                        basket_encoded |-> basket_encoded,
                        preprocessing_steps |-> steps9]]

----------------------------------------------------------------------------
\* The Frequent Itemset Miner.  Both miners work on column numbers of the
\* basket matrix and name the items at the end (use_colnames).

NRows(df) == Len(df.values)
NCols(df) == Len(df.columns)

\* Number of rows in which every column of cols is True.
ColCount(df, cols) ==
    Cardinality({r \in 1..NRows(df) : \A c \in cols : df.values[r][c]})

\* support = (rows containing all of cols) / (row count)
ColSupport(df, cols) == Rat(ColCount(df, cols), NRows(df))

\* One (support, itemsets) row of the returned table.
ItemsetRow(df, cols, support, use_colnames) ==
    [support |-> support,
     itemsets |-> IF use_colnames THEN {df.columns[c] : c \in cols} ELSE cols]

\* Level-wise strategy, round k > 1: extend every frequent (k-1)-combination
\* by one later item, keep the candidates all of whose (k-1)-subsets are
\* frequent.  Combinations are ascending tuples of column numbers.
AprioriCandidates(L) ==
    LET prev == {Range(L[i]) : i \in DOMAIN L}
        types == UNION prev
        ext(old) ==
            LET its == SortedSeq({x \in types : x > old[Len(old)]})
            IN  [j \in 1..Len(its) |-> Append(old, its[j])]
        all == Flatten([i \in 1..Len(L) |-> ext(L[i])])
    IN  SelectSeq(all, LAMBDA c : \A x \in Range(c) : (Range(c) \ {x}) \in prev)

\* Rounds k+1, k+2, ... given the frequent k-combinations Lk: stop when k
\* reached max_len or no candidate is frequent.
\* Mutant: the round loop stops one round early.
RECURSIVE AprioriRounds_StopsEarly(_, _, _, _, _)
AprioriRounds_StopsEarly(df, minsup, maxlen, k, Lk) ==
    IF k + 1 >= maxlen THEN <<>>
    ELSE LET cand == AprioriCandidates(Lk)
             next == SelectSeq(cand,
                        LAMBDA c : RGeq(ColSupport(df, Range(c)), minsup))
         IN  IF Len(next) = 0 THEN <<>>
             ELSE next \o AprioriRounds_StopsEarly(df, minsup, maxlen, k + 1, next)

RECURSIVE AprioriRounds(_, _, _, _, _)
AprioriRounds(df, minsup, maxlen, k, Lk) ==
    IF k >= maxlen THEN <<>>
    ELSE LET cand == AprioriCandidates(Lk)
             next == SelectSeq(cand,
                        LAMBDA c : RGeq(ColSupport(df, Range(c)), minsup))
         IN  IF Len(next) = 0 THEN <<>>
             ELSE next \o AprioriRounds(df, minsup, maxlen, k + 1, next)

\* The level-wise run round by round.  A run records the number of the
\* round it did last, the frequent combinations Lk of that round, all the
\* combinations found so far, and whether the loop has ended.
AprioriNotStarted == [round |-> 0, Lk |-> <<>>, combos |-> <<>>, done |-> FALSE]

\* Mutant: the loop does not test max_len.
AprioriRound_NoMaxLen(df, minsup, maxlen, run) ==
    LET cand == IF run.round = 0
                THEN [c \in 1..NCols(df) |-> <<c>>]
                ELSE AprioriCandidates(run.Lk)
        next == SelectSeq(cand,
                   LAMBDA c : RGeq(ColSupport(df, Range(c)), minsup))
    IN  [round |-> run.round + 1,
         Lk |-> next,
         combos |-> run.combos \o next,
         done |-> Len(next) = 0]

\* One round: the candidates (every single column in round 1), their
\* supports counted, the frequent ones kept; the loop ends when none is
\* frequent or the round's size has reached max_len.
AprioriRound(df, minsup, maxlen, run) ==
    LET cand == IF run.round = 0
                THEN [c \in 1..NCols(df) |-> <<c>>]
                ELSE AprioriCandidates(run.Lk)
        next == SelectSeq(cand,
                   LAMBDA c : RGeq(ColSupport(df, Range(c)), minsup))
    IN  [round |-> run.round + 1,
         Lk |-> next,
         combos |-> run.combos \o next,
         done |-> Len(next) = 0 \/ run.round + 1 >= maxlen]

\* The table a finished run returns.
AprioriTable(df, run, use_colnames) ==
    [i \in 1..Len(run.combos) |->
        ItemsetRow(df, Range(run.combos[i]),
                   ColSupport(df, Range(run.combos[i])), use_colnames)]

\* apriori(df, min_support, use_colnames, max_len)
apriori(df, minsup, use_colnames, maxlen) ==
    LET singles == [c \in 1..NCols(df) |-> <<c>>]
        L1 == SelectSeq(singles,
                 LAMBDA c : RGeq(ColSupport(df, Range(c)), minsup))
        combos == IF Len(L1) = 0 THEN <<>>
                  ELSE L1 \o AprioriRounds(df, minsup, maxlen, 1, L1)
    IN  [i \in 1..Len(combos) |->
            ItemsetRow(df, Range(combos[i]), ColSupport(df, Range(combos[i])),
                       use_colnames)]

\* Tree-projection strategy.  The prefix tree is the function from each
\* node's path (the items from the root down to the node) to its count.
EmptyTree == <<>>

TreeInsert(tree, path, cnt) ==
    LET prefixes == {SubSeq(path, 1, i) : i \in 1..Len(path)}
    IN  [p \in (DOMAIN tree) \cup prefixes |->
            (IF p \in DOMAIN tree THEN tree[p] ELSE 0)
          + (IF p \in prefixes THEN cnt ELSE 0)]

\* The tree of a list of <<path, count>> pairs.
RECURSIVE TreeBuild(_)
TreeBuild(paths) ==
    IF Len(paths) = 0 THEN EmptyTree
    ELSE TreeInsert(TreeBuild(SubSeq(paths, 1, Len(paths) - 1)),
                    paths[Len(paths)][1], paths[Len(paths)][2])

TreeItems(tree) == {p[Len(p)] : p \in DOMAIN tree}

\* Mutant: the count of one node of the item, its node links not followed.
TreeItemCount_OneNode(tree, item) ==
    tree[CHOOSE p \in DOMAIN tree : p[Len(p)] = item]

\* An item's frequency-table entry: the counts of its nodes, summed.
TreeItemCount(tree, item) ==
    LET nodes == SetToSeq({p \in DOMAIN tree : p[Len(p)] = item})
    IN  SumSeq([i \in 1..Len(nodes) |-> tree[nodes[i]]])

\* The items of s that satisfy keep, in the order of s.
KeepItems(s, keep) == SelectSeq(s, LAMBDA x : x \in keep)

\* The conditional tree of item: its prefix paths, restricted to the items
\* that are frequent within them.
CondTree(tree, item, n, minsup) ==
    LET nodes == SetToSeq({p \in DOMAIN tree : p[Len(p)] = item /\ Len(p) > 1})
        base == [i \in 1..Len(nodes) |->
                    <<SubSeq(nodes[i], 1, Len(nodes[i]) - 1), tree[nodes[i]]>>]
        cnt(x) == SumSeq([i \in 1..Len(base) |->
                    IF x \in Range(base[i][1]) THEN base[i][2] ELSE 0])
        cands == UNION {Range(base[i][1]) : i \in 1..Len(base)}
        keep == {x \in cands : RGeq(Rat(cnt(x), n), minsup)}
        kept == [i \in 1..Len(base) |-> <<KeepItems(base[i][1], keep), base[i][2]>>]
    IN  TreeBuild(SelectSeq(kept, LAMBDA pc : Len(pc[1]) > 0))

\* Mining recursion: every item of the tree, least frequent first, joined
\* to the suffix; deeper while the itemset is shorter than max_len and the
\* conditional tree is not empty.  Returns <<columns, count>> pairs, the
\* count being the item's frequency-table entry in the tree it was found in.
RECURSIVE FPMine(_, _, _, _, _, _)
FPMine(tree, suffix, order, n, minsup, maxlen) ==
    Flatten([i \in 1..Len(order) |->
        IF order[i] \notin TreeItems(tree) THEN <<>>
        ELSE LET item == order[i]
                 set == suffix \cup {item}
                 ct == CondTree(tree, item, n, minsup)
             IN  <<<<set, TreeItemCount(tree, item)>>>> \o
                 (IF Cardinality(set) < maxlen /\ DOMAIN ct # {}
                  THEN FPMine(ct, set, order, n, minsup, maxlen)
                  ELSE <<>>)])

\* The frequent columns, most frequent first, ties by column number.
RECURSIVE RankItems(_, _)
RankItems(df, S) ==
    IF S = {} THEN <<>>
    ELSE LET m == CHOOSE x \in S : \A y \in S :
                    \/ ColCount(df, {x}) > ColCount(df, {y})
                    \/ ColCount(df, {x}) = ColCount(df, {y}) /\ x <= y
         IN  <<m>> \o RankItems(df, S \ {m})

Reverse(s) == [i \in 1..Len(s) |-> s[Len(s) + 1 - i]]

\* fpgrowth(df, min_support, use_colnames, max_len)
fpgrowth(df, minsup, use_colnames, maxlen) ==
    LET n == NRows(df)
        frequent == {c \in 1..NCols(df) : RGeq(ColSupport(df, {c}), minsup)}
        rank == RankItems(df, frequent)
        paths == [r \in 1..n |->
                    <<SelectSeq(rank, LAMBDA c : df.values[r][c]), 1>>]
        tree == TreeBuild(SelectSeq(paths, LAMBDA pc : Len(pc[1]) > 0))
        found == FPMine(tree, {}, Reverse(rank), n, minsup, maxlen)
    IN  [i \in 1..Len(found) |->
            ItemsetRow(df, found[i][1], Rat(found[i][2], n), use_colnames)]

\* The tree-projection run call by call.  A run keeps the item order, the
\* calls of the mining recursion that are still to be made (each a
\* conditional tree and the suffix it was built for) and the
\* <<columns, count>> pairs found.
FPNotStarted ==
    [started |-> FALSE, order |-> <<>>, calls |-> <<>>, found |-> <<>>,
     returned |-> FALSE, table |-> <<>>]

\* The start of the run: the frequent columns ranked, the tree of the rows
\* built, the first call (on the whole tree, with no suffix) waiting.
FPStart(df, minsup) ==
    LET n == NRows(df)
        frequent == {c \in 1..NCols(df) : RGeq(ColSupport(df, {c}), minsup)}
        paths(rank) == [r \in 1..n |->
                          <<SelectSeq(rank, LAMBDA c : df.values[r][c]), 1>>]
    IN  CHOOSE run \in
            {[started |-> TRUE,
              order |-> Reverse(rank),
              calls |-> << [tree |-> TreeBuild(SelectSeq(paths(rank),
                                        LAMBDA pc : Len(pc[1]) > 0)),
                            suffix |-> {}] >>,
              found |-> <<>>,
              returned |-> FALSE,
              table |-> <<>>] : rank \in {RankItems(df, frequent)}} : TRUE

\* One call of the recursion: every item of the call's tree joined to the
\* suffix, and a further call for each of them whose itemset is shorter
\* than max_len and whose conditional tree is not empty.
FPCall(call, order, n, minsup, maxlen) ==
    LET here == SelectSeq(order, LAMBDA x : x \in TreeItems(call.tree))
    IN  [found |-> [i \in 1..Len(here) |->
                      <<call.suffix \cup {here[i]},
                        TreeItemCount(call.tree, here[i])>>],
         calls |-> SelectSeq(
                      [i \in 1..Len(here) |->
                          [tree |-> CondTree(call.tree, here[i], n, minsup),
                           suffix |-> call.suffix \cup {here[i]}]],
                      LAMBDA c : Cardinality(c.suffix) < maxlen
                                   /\ DOMAIN c.tree # {})]

\* The run after the first waiting call was made; it returns its table
\* when no call waits any more.
FPAfter(df, use_colnames, run, made) ==
    LET calls == made.calls \o Tail(run.calls)
        found == run.found \o made.found
    IN  [started |-> TRUE,
         order |-> run.order,
         calls |-> calls,
         found |-> found,
         returned |-> Len(calls) = 0,
         table |-> IF Len(calls) = 0
                   THEN [i \in 1..Len(found) |->
                           ItemsetRow(df, found[i][1],
                                      Rat(found[i][2], NRows(df)),
                                      use_colnames)]
                   ELSE <<>>]

\* The next step of the run.
FPStep(df, minsup, maxlen, use_colnames, run) ==
    IF ~run.started
    THEN FPStart(df, minsup)
    ELSE CHOOSE after \in
            {FPAfter(df, use_colnames, run, made) :
                made \in {FPCall(run.calls[1], run.order, NRows(df),
                                 minsup, maxlen)}} : TRUE

\* Mutant: the fpgrowth call leaves max_len out (the library's default: no limit).
MineFrequentItemsets_NoMaxLen(algorithm, basket_df, minsup, maxlen) ==
    IF algorithm = "Apriori"
    THEN apriori(basket_df, minsup, TRUE, maxlen)
    ELSE fpgrowth(basket_df, minsup, TRUE, NCols(basket_df) + 1)

\* Mutant: the calls leave use_colnames out (the library's default: False).
MineFrequentItemsets_ColumnNumbers(algorithm, basket_df, minsup, maxlen) ==
    IF algorithm = "Apriori"
    THEN apriori(basket_df, minsup, FALSE, maxlen)
    ELSE fpgrowth(basket_df, minsup, FALSE, maxlen)

\* Analysis Setup, Step 1: the miner the selectbox names, on the stored
\* basket matrix, with the sliders' values and use_colnames=True.
MineFrequentItemsets(algorithm, basket_df, minsup, maxlen) ==
    IF algorithm = "Apriori"
    THEN apriori(basket_df, minsup, TRUE, maxlen)
    ELSE fpgrowth(basket_df, minsup, TRUE, maxlen)

----------------------------------------------------------------------------
\* The Rule Generator.

ItemsetsOf(table) == {table[i].itemsets : i \in DOMAIN table}

\* frequent_items_dict[S]: the support the table gives itemset S.
TableSupport(table, S) ==
    LET rows == {i \in DOMAIN table : table[i].itemsets = S}
    IN  table[CHOOSE i \in rows : \A j \in rows : j <= i].support

\* itertools.combinations(s, r): the r-subsets of the list s, in its order.
RECURSIVE Combinations(_, _)
Combinations(s, r) ==
    IF r = 0 THEN <<{}>>
    ELSE IF Len(s) < r THEN <<>>
    ELSE LET with == Combinations(Tail(s), r - 1)
         IN  [i \in 1..Len(with) |-> {Head(s)} \cup with[i]]
             \o Combinations(Tail(s), r)

\* The antecedents of the splits of an itemset: its non-empty proper
\* subsets, the larger ones first.
Antecedents(itemset) ==
    LET s == SortedSeq(itemset)
    IN  Flatten([j \in 1..(Len(s) - 1) |-> Combinations(s, Len(s) - j)])

\* Mutant: the consequent is the whole itemset, the antecedent not taken out.
RuleOf_ConsequentWhole(table, itemset, antecedent) ==
    LET sAC == TableSupport(table, itemset)
        sA == TableSupport(table, antecedent)
        conf == RDiv(sAC, sA)
    IN  [antecedents |-> antecedent, consequents |-> itemset,
         antecedent_support |-> sA, consequent_support |-> sAC,
         support |-> sAC, confidence |-> conf, lift |-> RDiv(conf, sAC)]

\* Mutant: lift divides by the antecedent's support.
RuleOf_LiftByAntecedent(table, itemset, antecedent) ==
    LET consequent == itemset \ antecedent
        sAC == TableSupport(table, itemset)
        sA == TableSupport(table, antecedent)
        sC == TableSupport(table, consequent)
        conf == RDiv(sAC, sA)
    IN  [antecedents |-> antecedent, consequents |-> consequent,
         antecedent_support |-> sA, consequent_support |-> sC,
         support |-> sAC, confidence |-> conf, lift |-> RDiv(conf, sA)]

\* The rule of one split: support(rule) = support(antecedent + consequent),
\* confidence = support(rule) / support(antecedent),
\* lift = confidence / support(consequent), supports looked up in the table.
\* (The leverage and conviction columns are not modelled.)
RuleOf(table, itemset, antecedent) ==
    LET consequent == itemset \ antecedent
        sAC == TableSupport(table, itemset)
        sA == TableSupport(table, antecedent)
        sC == TableSupport(table, consequent)
        conf == RDiv(sAC, sA)
    IN  [antecedents |-> antecedent, consequents |-> consequent,
         antecedent_support |-> sA, consequent_support |-> sC,
         support |-> sAC, confidence |-> conf, lift |-> RDiv(conf, sC)]

\* association_rules(df, metric, min_threshold): for every itemset of the
\* table, every split whose antecedent is in the table, kept if its metric
\* reaches the threshold; in generation order.
association_rules(table, metric, min_threshold) ==
    LET keys == ItemsetsOf(table)
        rulesOf(itemset) ==
            LET ants == SelectSeq(Antecedents(itemset), LAMBDA a : a \in keys)
                made == [j \in 1..Len(ants) |-> RuleOf(table, itemset, ants[j])]
            IN  SelectSeq(made, LAMBDA r :
                    RGeq(IF metric = "confidence" THEN r.confidence ELSE r.lift,
                         min_threshold))
    IN  Flatten([i \in 1..Len(table) |-> rulesOf(table[i].itemsets)])

----------------------------------------------------------------------------
\* The Analysis Setup page.

\* What an expression of the script ends with: a value, or an exception.
Returns(v) == [value |-> v]
Raises(e) == [exception |-> e]

RMin(x, y) == IF RGeq(x, y) THEN y ELSE x
RMax(x, y) == IF RGeq(x, y) THEN x ELSE y

\* 20 / total_transactions for a count above 0.
TwentyOver(n) == Rat(20, n)

\* Mutant: the suggestion is capped at the slider's maximum, 0.1.
ParameterAdvisor_CapAtSliderMax(n) ==
    IF n = 0 THEN Raises("ZeroDivisionError")
    ELSE Returns(RMax(Rat(1, 1000), RMin(Rat(1, 10), TwentyOver(n))))

\* The Parameter Advisor:
\* suggested_support = max(0.001, min(0.05, 20 / total_transactions))
ParameterAdvisor(n) ==
    IF n = 0 THEN Raises("ZeroDivisionError")
    ELSE Returns(RMax(Rat(1, 1000), RMin(Rat(1, 20), TwentyOver(n))))

\* The script's lines 42-43 for a transaction list of the length held in
\* total_transactions: the suggestion is computed, or the exception ends the
\* script run.
ComputeSuggestion ==
    LET result == ParameterAdvisor(total_transactions)
    IN  /\ suggested_support' = result
        /\ outcome' = IF result = Raises("ZeroDivisionError")
                      THEN "script_exception" ELSE "shown"
        /\ UNCHANGED <<data, column_mapping, data_processor, processed_data, analysis_results,
                       analysis_complete, export_ready, current_step,
                       min_support, max_len, total_transactions,
                       frequent_itemsets>>

\* The script up to the sliders, run on the stored processed data: the
\* advisor's suggestion is the min_support slider's value, 4 is max_len's.
AnalysisSetupShown ==
    /\ total_transactions = Len(processed_data.transactions)
    /\ suggested_support = ParameterAdvisor(total_transactions)
    /\ min_support = suggested_support.value
    /\ max_len = 4

\* st.slider(min_value, max_value): the widget returns values of that range only.
Slider(min_value, max_value) == [min_value |-> min_value, max_value |-> max_value]
InRange(slider, v) == RGeq(v, slider.min_value) /\ RGeq(slider.max_value, v)

SupportSlider == Slider(Rat(1, 1000), Rat(1, 10))
ConfidenceSlider == Slider(Rat(1, 10), Rat(1, 1))
LiftSlider == Slider(Rat(1, 1), Rat(5, 1))
MaxLenSlider == Slider(Rat(2, 1), Rat(8, 1))

\* min_support slider: 0.001 to 0.1 in steps of 0.001 (the value drawn: the
\* maximum, the only one some data of the model has no frequent item for).
SupportSliderValues == {Rat(1, 10)}

\* min_confidence slider: 0.1 to 1.0 in steps of 0.05 (the values drawn).
ConfidenceSliderValues == {Rat(1, 2), Rat(7, 10), Rat(1, 1)}

\* Mutant: the min_lift slider starts at 0.0.
LiftSliderValues_FromZero == {Rat(0, 1), Rat(1, 1), Rat(6, 5), Rat(3, 2)}

\* min_lift slider: 1.0 to 5.0 in steps of 0.1 (the values drawn).
LiftSliderValues == {Rat(1, 1), Rat(6, 5), Rat(3, 2)}

\* Mutant: the max_len slider starts at 0.
MaxLenSliderValues_FromZero == {0, 2, 4}

\* max_len slider: 2 to 8 (the values drawn: the minimum and the default).
MaxLenSliderValues == {2, 4}

\* Mutant: the lift filter is left out.
FilterByLift_Missing(rules, min_lift) == rules

\* Mutant: the lift filter keeps lift > min_lift only.
FilterByLift_Strict(rules, min_lift) ==
    SelectSeq(rules, LAMBDA r : RGt(r.lift, min_lift))

\* rules = rules[rules['lift'] >= min_lift]
FilterByLift(rules, min_lift) ==
    SelectSeq(rules, LAMBDA r : RGeq(r.lift, min_lift))

\* Mutant: a rule equal in confidence and lift counts as sorting before.
RuleBefore_OrEqual(a, b) ==
    \/ RGt(a.confidence, b.confidence)
    \/ a.confidence = b.confidence /\ RGeq(a.lift, b.lift)

\* Whether rule a sorts before rule b: confidence, then lift, descending.
RuleBefore(a, b) ==
    \/ RGt(a.confidence, b.confidence)
    \/ a.confidence = b.confidence /\ RGt(a.lift, b.lift)

\* rules.sort_values(['confidence', 'lift'], ascending=False): a stable sort.
RECURSIVE SortRules(_)
SortRules(rules) ==
    IF Len(rules) <= 1 THEN rules
    ELSE LET front == SortRules(SubSeq(rules, 1, Len(rules) - 1))
             x == rules[Len(rules)]
             k == Cardinality({i \in 1..Len(front) : ~RuleBefore(x, front[i])})
         IN  SubSeq(front, 1, k) \o <<x>> \o SubSeq(front, k + 1, Len(front))

\* Mutant: an empty table ends the run in the except block.
StopNoItemsets_AsError ==
    /\ outcome' = "error"
    /\ UNCHANGED <<data, column_mapping, data_processor, processed_data, analysis_results,
                   analysis_complete, export_ready, current_step,
                   total_transactions, suggested_support, frequent_itemsets>>

\* len(frequent_itemsets) == 0: st.warning("No frequent itemsets found ...")
\* and st.stop(), which ends the script run and is not caught by
\* "except Exception".
StopNoItemsets ==
    /\ outcome' = "no_itemsets"
    /\ UNCHANGED <<data, column_mapping, data_processor, processed_data, analysis_results,
                   analysis_complete, export_ready, current_step,
                   total_transactions, suggested_support, frequent_itemsets>>

\* Mutant: the miner is given the max_len of the script run before this one.
ExecuteAnalysis_StaleMaxLen(algorithm, minsup, min_confidence, min_lift, maxlen) ==
    LET processed == processed_data
        mined == MineFrequentItemsets(algorithm, processed.basket_df,
                                      minsup, max_len)
        generated == association_rules(mined, "confidence", min_confidence)
        rules == FilterByLift(generated, min_lift)
        rules_found == Len(rules) # 0
    IN  /\ min_support' = minsup
        /\ max_len' = maxlen
        /\ IF Len(mined) = 0
           THEN StopNoItemsets
           ELSE /\ analysis_results' =
                       [frequent_itemsets |-> mined,
                        rules |-> IF rules_found THEN SortRules(rules) ELSE <<>>,
                        algorithm |-> algorithm,
                        parameters |-> [min_support |-> minsup,
                                        min_confidence |-> min_confidence,
                                        min_lift |-> min_lift,
                                        max_len |-> maxlen]]
                /\ current_step' = 5
                /\ analysis_complete' = TRUE
                /\ export_ready' = TRUE
                /\ outcome' = IF rules_found THEN "success" ELSE "partial_success"
                /\ UNCHANGED <<data, column_mapping, data_processor, processed_data,
                               total_transactions, suggested_support,
                               frequent_itemsets>>

\* The "Execute Market Basket Analysis" button with the widgets' values:
\* mine, stop with a warning if nothing is frequent, generate the rules,
\* filter by lift, sort, store the results.  (The display-only columns
\* antecedents_str and consequents_str are not modelled.)
ExecuteAnalysis(algorithm, minsup, min_confidence, min_lift, maxlen) ==
    LET processed == processed_data
        mined == MineFrequentItemsets(algorithm, processed.basket_df,
                                      minsup, maxlen)
        generated == association_rules(mined, "confidence", min_confidence)
        rules == FilterByLift(generated, min_lift)
        rules_found == Len(rules) # 0
    IN  /\ min_support' = minsup
        /\ max_len' = maxlen
        /\ IF Len(mined) = 0
           THEN StopNoItemsets
           ELSE /\ analysis_results' =
                       [frequent_itemsets |-> mined,
                        rules |-> IF rules_found THEN SortRules(rules) ELSE <<>>,
                        algorithm |-> algorithm,
                        parameters |-> [min_support |-> minsup,
                                        min_confidence |-> min_confidence,
                                        min_lift |-> min_lift,
                                        max_len |-> maxlen]]
                /\ current_step' = 5
                /\ analysis_complete' = TRUE
                /\ export_ready' = TRUE
                /\ outcome' = IF rules_found THEN "success" ELSE "partial_success"
                /\ UNCHANGED <<data, column_mapping, data_processor, processed_data,
                               total_transactions, suggested_support,
                               frequent_itemsets>>

\* Mutant: the except block keeps the table the failed run had mined.
AnalysisError_KeepsTable(algorithm, minsup, maxlen, found) ==
    /\ outcome' = "error"
    /\ analysis_results' =
          IF Len(found) = 0 THEN analysis_results
          ELSE [frequent_itemsets |-> found, rules |-> <<>>,
                algorithm |-> algorithm,
                parameters |-> [min_support |-> minsup, max_len |-> maxlen]]
    /\ UNCHANGED <<data, column_mapping, data_processor, processed_data, analysis_complete,
                   export_ready, current_step, total_transactions,
                   suggested_support, frequent_itemsets>>

\* except Exception as e: the error box is shown; the run's locals (found:
\* the table, if the miner had returned it) are dropped.
AnalysisError(algorithm, minsup, maxlen, found) ==
    /\ outcome' = "error"
    /\ UNCHANGED <<data, column_mapping, data_processor, processed_data, analysis_results,
                   analysis_complete, export_ready, current_step,
                   total_transactions, suggested_support, frequent_itemsets>>

\* The button, in a run where a library call raises: the miner (at =
\* "mining"), or the rule generator once the miner returned a non-empty
\* table (at = "rules").
ExecuteAnalysisRaises(algorithm, minsup, maxlen, at) ==
    LET mined == MineFrequentItemsets(algorithm, processed_data.basket_df,
                                      minsup, maxlen)
    IN  /\ min_support' = minsup
        /\ max_len' = maxlen
        /\ IF at = "mining"
           THEN AnalysisError(algorithm, minsup, maxlen, <<>>)
           ELSE /\ Len(mined) # 0
                /\ AnalysisError(algorithm, minsup, maxlen, mined)

----------------------------------------------------------------------------
\* The Data Processing page (3_Data_Processing.py).

\* "Minimum items per transaction" slider (1..10): no transaction holds more
\* than all the items, so every value above that acts like the last one here.
TransactionSizeSliderValues == 1..(Cardinality(Items) + 1)

\* The filter without the re-encoding.
ApplyQualityFilter_NoReencode(processed, min_transaction_size) ==
    IF min_transaction_size > 1
    THEN LET clean_df == FilterBySize(processed.clean_df, min_transaction_size)
         IN  [clean_df |-> clean_df,
              transactions |-> GroupTransactions(clean_df),
              basket_df |-> processed.basket_df]
    ELSE processed

\* Step 3 of the page: filter the transactions by size, recreate the
\* transaction list and re-encode it.
ApplyQualityFilter(processed, min_transaction_size) ==
    IF min_transaction_size > 1
    THEN LET clean_df == FilterBySize(processed.clean_df, min_transaction_size)
             transactions == GroupTransactions(clean_df)
         IN  [clean_df |-> clean_df,
              transactions |-> transactions,
              basket_df |-> EncodeBasket(transactions)]
    ELSE processed

\* "Start Data Processing": run process_data, stop if it failed; filter (the
\* processor's dict is changed in place); stop if no transaction is left;
\* store the processed data in the session.
StartDataProcessing(min_transaction_size) ==
    LET call == process_data(data_processor, data, column_mapping)
        filtered == ApplyQualityFilter(call.self.processed_data,
                                       min_transaction_size)
        rest == <<data, column_mapping, analysis_results, analysis_complete, export_ready,
                  min_support, max_len, total_transactions, suggested_support,
                  frequent_itemsets>>
    IN  IF ~call.ret
        THEN /\ data_processor' = call.self
             /\ outcome' = "processing_failed"
             /\ UNCHANGED <<processed_data, current_step, rest>>
        ELSE /\ data_processor' = [call.self EXCEPT !.processed_data = filtered]
             /\ IF Len(filtered.transactions) = 0
                THEN /\ outcome' = "no_transactions"
                     /\ UNCHANGED <<processed_data, current_step, rest>>
                ELSE /\ processed_data' = filtered
                     /\ current_step' = 4
                     /\ outcome' = "processed"
                     /\ UNCHANGED rest

\* DataProcessor.get_processing_summary: None without processed data, else
\* the counts taken from the processor's own transactions and basket_encoded
\* and the steps of the last call.
get_processing_summary(self) ==
    IF self.processed_data = None THEN None
    ELSE [total_transactions |-> Len(self.transactions),
          unique_products |-> NCols(self.basket_encoded),
          processing_steps |-> self.preprocessing_steps]

----------------------------------------------------------------------------
\* Inputs of the miner harness.

\* A transaction as process_data leaves it: a non-empty list of distinct items.
TxTypes == SetToSeq({SortedSeq(S) : S \in (SUBSET Items) \ {{}}})

\* The transaction lists of 1..MaxTx transactions, one per multiset of
\* transactions (neither miner reads the row order: both only count rows).
TransactionLists ==
    UNION {{[i \in 1..k |-> TxTypes[ix[i]]] :
              ix \in {f \in [1..k -> 1..Len(TxTypes)] :
                         \A i \in 1..(k - 1) : f[i] <= f[i + 1]}} :
           k \in 1..MaxTx}

\* min_support values of the miner contract, (0, 1].
MinerSupports == {Rat(1, 10), Rat(1, 2), Rat(3, 4), Rat(1, 1)}

\* max_len values of the miner contract, >= 1, up to one past the universe.
MinerMaxLens == 1..(Cardinality(Items) + 1)

Algorithms == {"Apriori", "FP-Growth"}

\* A frame that process_data turns into the transaction list.
FrameOf(transactions) ==
    Flatten([t \in DOMAIN transactions |->
                [j \in DOMAIN transactions[t] |->
                    [TransactionID |-> Cell(t),
                     Product |-> Cell(Text(transactions[t][j])),
                     Quantity |-> NaN]]])

\* The processor after the Data Processing page ran on that frame with the
\* default filters, and processed_data as the page stores it.
ProcessorOf(transactions) ==
    process_data(DataProcessor, FrameOf(transactions), Mapping("None")).self
ProcessedOf(transactions) == ProcessorOf(transactions).processed_data

\* The session after that run.
Processed(transactions) ==
    /\ data = FrameOf(transactions)
    /\ column_mapping = Mapping("None")
    /\ data_processor = ProcessorOf(transactions)
    /\ processed_data = ProcessedOf(transactions)

SessionIdle ==
    /\ analysis_results = EmptyDict
    /\ analysis_complete = FALSE
    /\ export_ready = FALSE
    /\ current_step = 4
    /\ outcome = "idle"
    /\ presses = 0
    /\ session_keys = SessionKeys

\* A miner call that was not made yet, and one that returned table.
NotCalled == [returned |-> FALSE, table |-> <<>>]
Returned(table) == [returned |-> TRUE, table |-> table]

InitMiner ==
    /\ \E T \in TransactionLists : Processed(T)
    /\ total_transactions = Len(processed_data.transactions)
    /\ suggested_support = ParameterAdvisor(total_transactions)
    /\ min_support \in MinerSupports
    /\ max_len \in MinerMaxLens
    /\ frequent_itemsets = [a \in Algorithms |-> NotCalled]
    /\ SessionIdle

\* One call of apriori(...) or fpgrowth(...) as the Analysis Setup page makes it.
RunMiner(algorithm) ==
    /\ ~frequent_itemsets[algorithm].returned
    /\ frequent_itemsets' =
          [frequent_itemsets EXCEPT ![algorithm] =
              Returned(MineFrequentItemsets(algorithm, processed_data.basket_df,
                                            min_support, max_len))]
    /\ UNCHANGED <<data, column_mapping, data_processor, processed_data, analysis_results,
                   analysis_complete, export_ready, current_step, outcome,
                   min_support, max_len, total_transactions,
                   suggested_support>>

NextMiner ==
    \E algorithm \in Algorithms : RunMiner(algorithm) /\ UNCHANGED <<presses, session_keys>>

SpecMiner == InitMiner /\ [][NextMiner]_vars

----------------------------------------------------------------------------
\* The round harness: the level-wise miner round by round, and the
\* tree-projection miner's call, on the stored basket matrix.

\* The round harness steps through basket matrices of at most this many rows.
MaxRoundTx == 2

InitRounds ==
    /\ \E T \in {L \in TransactionLists : Len(L) <= MaxRoundTx} : Processed(T)
    /\ total_transactions = Len(processed_data.transactions)
    /\ suggested_support = ParameterAdvisor(total_transactions)
    /\ min_support \in MinerSupports
    /\ max_len \in MinerMaxLens
    /\ frequent_itemsets = [a \in Algorithms |->
                               IF a = "Apriori" THEN AprioriNotStarted
                               ELSE FPNotStarted]
    /\ SessionIdle

\* The next round of the level-wise loop.
LevelWiseRound ==
    /\ ~frequent_itemsets["Apriori"].done
    /\ frequent_itemsets' =
          [frequent_itemsets EXCEPT !["Apriori"] =
              AprioriRound(processed_data.basket_df, min_support, max_len, @)]
    /\ UNCHANGED <<data, column_mapping, data_processor, processed_data, analysis_results,
                   analysis_complete, export_ready, current_step, outcome,
                   min_support, max_len, total_transactions,
                   suggested_support, presses, session_keys>>

\* The next step of the fpgrowth call, made once the apriori call is over.
TreeProjectionStep ==
    /\ frequent_itemsets["Apriori"].done
    /\ ~frequent_itemsets["FP-Growth"].returned
    /\ frequent_itemsets' =
          [frequent_itemsets EXCEPT !["FP-Growth"] =
              FPStep(processed_data.basket_df, min_support, max_len, TRUE, @)]
    /\ UNCHANGED <<data, column_mapping, data_processor, processed_data, analysis_results,
                   analysis_complete, export_ready, current_step, outcome,
                   min_support, max_len, total_transactions,
                   suggested_support, presses, session_keys>>

NextRounds == LevelWiseRound \/ TreeProjectionStep

\* The calls are synchronous: a step that can be made is made.
SpecRounds ==
    /\ InitRounds /\ [][NextRounds]_vars
    /\ WF_vars(LevelWiseRound) /\ WF_vars(TreeProjectionStep)

----------------------------------------------------------------------------
\* The rule harness: one run of the Analysis Setup page over stored
\* processed data.

\* The scenario's five transactions.
Scenario == << <<Bread, Milk>>, <<Bread, Milk, Eggs>>, <<Bread, Eggs>>,
               <<Milk, Eggs>>, <<Bread, Milk, Eggs>> >>

\* Eleven transactions of one product each, all different: the smallest
\* data on which no item reaches the largest min_support the slider offers.
Sparse == [t \in 1..11 |-> <<t>>]

\* The session once the Data Processing page has stored processed data and
\* no analysis has run yet.
InitRules ==
    /\ \E T \in TransactionLists \cup {Scenario, Sparse} : Processed(T)
    /\ SessionIdle
    /\ AnalysisSetupShown
    /\ frequent_itemsets = [a \in Algorithms |-> NotCalled]

\* The first press of the button, with any values of the widgets.
NextRules ==
    \E algorithm \in Algorithms, minsup \in SupportSliderValues,
       min_confidence \in ConfidenceSliderValues,
       min_lift \in LiftSliderValues, maxlen \in MaxLenSliderValues :
        /\ outcome = "idle"
        /\ ExecuteAnalysis(algorithm, minsup, min_confidence, min_lift, maxlen)
        /\ presses' = presses + 1
        /\ UNCHANGED session_keys

SpecRules == InitRules /\ [][NextRules]_vars

----------------------------------------------------------------------------
\* The repeated-run harness: the pipeline run twice over the same uploaded
\* frame with the widgets left as they are.

\* The widget values of the repeated runs.
RepeatConfidences == {Rat(1, 2), Rat(1, 1)}
RepeatLifts == {Rat(6, 5)}

\* "Start Data Processing" pressed again with the slider at its default.
ProcessAgain ==
    /\ outcome \in {"idle", "success", "partial_success"}
    /\ presses <= 1
    /\ StartDataProcessing(1)
    /\ UNCHANGED <<presses, session_keys>>

\* The first press of the Execute button.
FirstAnalysis ==
    \E algorithm \in Algorithms, minsup \in SupportSliderValues,
       min_confidence \in RepeatConfidences, min_lift \in RepeatLifts,
       maxlen \in MaxLenSliderValues :
        /\ presses = 0
        /\ ExecuteAnalysis(algorithm, minsup, min_confidence, min_lift, maxlen)
        /\ presses' = 1
        /\ UNCHANGED session_keys

\* The second press, with the algorithm and the widgets of the first.
SecondAnalysis ==
    /\ presses = 1
    /\ analysis_results # EmptyDict
    /\ ExecuteAnalysis(analysis_results.algorithm,
                       analysis_results.parameters.min_support,
                       analysis_results.parameters.min_confidence,
                       analysis_results.parameters.min_lift,
                       analysis_results.parameters.max_len)
    /\ presses' = 2
    /\ UNCHANGED session_keys

NextTwice == ProcessAgain \/ FirstAnalysis \/ SecondAnalysis

SpecTwice == InitRules /\ [][NextTwice]_vars

----------------------------------------------------------------------------
\* The processing harness: the Data Processing page over an uploaded frame
\* whose columns are mapped.

\* Rows of an uploaded frame, at most.
MaxRows == 3

TransactionIDs == {1, 2}

\* The rows of uploaded frames: an id with a product text, and the two
\* kinds of row dropna removes (a missing id, a missing product), one row
\* for each since nothing else of such a row is read.
RowTypes ==
    {[TransactionID |-> Cell(t), Product |-> Cell(p)] :
        t \in TransactionIDs,
        p \in {Text(i) : i \in Items} \cup {Untidy(Bread), Blank}}
      \cup {[TransactionID |-> NaN, Product |-> Cell(Text(Bread))],
            [TransactionID |-> Cell(1), Product |-> NaN]}

\* The Quantity column of the uploaded frames, by row number: 3, missing,
\* 0 and 12 in turn.
QuantityAt(i) == <<Cell(3), NaN, Cell(0), Cell(12)>>[((i - 1) % 4) + 1]

\* The uploaded frames: any rows, with that Quantity column.
Frames ==
    UNION {{[i \in 1..k |-> [TransactionID |-> rows[i].TransactionID,
                             Product |-> rows[i].Product,
                             Quantity |-> QuantityAt(i)]] :
              rows \in [1..k -> RowTypes]} :
           k \in 1..MaxRows}

\* The uploaded frames of fewer rows whose first quantity is inf.
InfiniteFrames ==
    {[df EXCEPT ![1].Quantity = Infinite] : df \in {f \in Frames : Len(f) < MaxRows}}

InitProc ==
    /\ data \in Frames \cup InfiniteFrames
    /\ column_mapping \in {Mapping("None"), Mapping("Quantity")}
    /\ data_processor = DataProcessor
    /\ processed_data = None
    /\ analysis_results = EmptyDict
    /\ analysis_complete = FALSE
    /\ export_ready = FALSE
    /\ current_step = 3
    /\ outcome = "idle"
    /\ presses = 0
    /\ session_keys = SessionKeys
    /\ min_support = Rat(1, 1)
    /\ max_len = 1
    /\ total_transactions = None
    /\ suggested_support = None
    /\ frequent_itemsets = [a \in Algorithms |-> NotCalled]

\* The first press of the button, with any value of the slider.
NextProc ==
    \E min_transaction_size \in TransactionSizeSliderValues :
        /\ outcome = "idle"
        /\ StartDataProcessing(min_transaction_size)
        /\ UNCHANGED <<presses, session_keys>>

SpecProc == InitProc /\ [][NextProc]_vars

----------------------------------------------------------------------------
\* The failure harness: runs of the Analysis Setup page in which a library
\* call may raise, before and after runs that end normally.

\* The transaction lists of at most two transactions, and the two named ones.
FailureLists ==
    {T \in TransactionLists : Len(T) <= 2} \cup {Scenario, Sparse}

InitFail ==
    /\ \E T \in FailureLists : Processed(T)
    /\ SessionIdle
    /\ AnalysisSetupShown
    /\ frequent_itemsets = [a \in Algorithms |-> NotCalled]

\* A run that ends normally (the first one, or one after a failed run), or
\* a run that fails.
NextFail ==
    \/ \E algorithm \in Algorithms, minsup \in SupportSliderValues,
          min_confidence \in ConfidenceSliderValues,
          min_lift \in LiftSliderValues, maxlen \in MaxLenSliderValues :
           /\ outcome \in {"idle", "error"}
           /\ ExecuteAnalysis(algorithm, minsup, min_confidence, min_lift, maxlen)
           /\ UNCHANGED <<presses, session_keys>>
    \/ \E algorithm \in Algorithms, minsup \in SupportSliderValues,
          maxlen \in MaxLenSliderValues, at \in {"mining", "rules"} :
           /\ ExecuteAnalysisRaises(algorithm, minsup, maxlen, at)
           /\ UNCHANGED <<presses, session_keys>>

SpecFail == InitFail /\ [][NextFail]_vars

----------------------------------------------------------------------------
\* The advisor harness: the Parameter Advisor on transaction counts.  Only
\* the length of the transaction list is read, so only it is drawn.

\* Counts from 0 up to this one are drawn, and those around the two clamps.
MaxCount == 50

AdvisorCounts ==
    (0..MaxCount) \cup {399, 400, 401, 1000, 19999, 20000, 20001}

InitAdvisor ==
    /\ total_transactions \in AdvisorCounts
    /\ suggested_support = None
    /\ data = None
    /\ column_mapping = EmptyDict
    /\ data_processor = DataProcessor
    /\ processed_data = None
    /\ SessionIdle
    /\ min_support = Rat(1, 1)
    /\ max_len = 1
    /\ frequent_itemsets = [a \in Algorithms |-> NotCalled]

NextAdvisor == outcome = "idle" /\ ComputeSuggestion /\ UNCHANGED <<presses, session_keys>>

SpecAdvisor == InitAdvisor /\ [][NextAdvisor]_vars

----------------------------------------------------------------------------
\* The session harness: the pages of the application, run in any order in
\* one browser session that starts with no key.

Max(a, b) == IF a >= b THEN a ELSE b

\* A row of an uploaded file: the quantity 2 is on every row.
UploadRow(t, product) ==
    [TransactionID |-> Cell(t), Product |-> Cell(product), Quantity |-> Cell(2)]

\* The files the user uploads: two baskets over different products, the
\* first with a one-product transaction, and a file whose only product text
\* has no word character in it.
UploadFrames ==
    {<<UploadRow(1, Text(Bread)), UploadRow(1, Text(Milk)), UploadRow(2, Text(Bread))>>,
     <<UploadRow(1, Text(Eggs)), UploadRow(1, Text(Milk)), UploadRow(2, Text(Eggs)),
       UploadRow(2, Text(Milk))>>,
     <<UploadRow(1, Blank)>>}

\* The slider values with which the Start button is pressed: no filter, a
\* filter that removes the one-product transactions, and one that removes
\* every transaction.
SessionSizes == {1, 2, 3}

\* The quantity column as the Column Mapping page's selectbox is left.
SessionQuantities == {"None"}

\* The widgets' values with which the Execute button is pressed.
SessionAlgorithms == {"FP-Growth"}
SessionSupports == SupportSliderValues
SessionConfidences == {Rat(7, 10)}
SessionLifts == {Rat(1, 1), Rat(6, 5)}
SessionMaxLens == {2}

\* The variables of the Analysis Setup script and of the harnesses.
ScriptVars ==
    <<min_support, max_len, total_transactions, suggested_support,
      frequent_itemsets, presses>>

InitSession ==
    /\ session_keys = {}
    /\ data = <<>>
    /\ column_mapping = EmptyDict
    /\ data_processor = DataProcessor
    /\ processed_data = None
    /\ analysis_results = EmptyDict
    /\ analysis_complete = FALSE
    /\ export_ready = FALSE
    /\ current_step = 1
    /\ outcome = "idle"
    /\ presses = 0
    /\ min_support = Rat(1, 1)
    /\ max_len = 1
    /\ total_transactions = 0
    /\ suggested_support = None
    /\ frequent_itemsets = [a \in Algorithms |-> NotCalled]

\* app.py, the home page: line 3 imports the module load_custom_css and
\* line 16 calls it, which raises TypeError before initialize_session_state
\* (lines 19-37), the Reset Analysis button (223-227) and the sample loader
\* (230-243) are reached; the run leaves the session as it was.
HomePage ==
    /\ outcome' = "home_exception"
    /\ UNCHANGED <<data, column_mapping, data_processor, processed_data,
                   analysis_results, analysis_complete, export_ready,
                   current_step, session_keys, ScriptVars>>

\* "if 'data_processor' not in st.session_state: ... = DataProcessor()",
\* the first lines of the pages 1, 2 and 3.
EnsureProcessor ==
    IF "data_processor" \in session_keys THEN data_processor ELSE DataProcessor

\* st.session_state.get('current_step', 1)
CurrentStepOr1 == IF "current_step" \in session_keys THEN current_step ELSE 1

\* The Data Upload page (1_Data_Upload.py) without a file: the processor is
\* created if the session has none, the last line sets current_step.
OpenDataUpload ==
    /\ data_processor' = EnsureProcessor
    /\ current_step' = Max(CurrentStepOr1, 1)
    /\ session_keys' = session_keys \cup {"data_processor", "current_step"}
    /\ outcome' = "viewed"
    /\ UNCHANGED <<data, column_mapping, processed_data, analysis_results,
                   analysis_complete, export_ready, ScriptVars>>

\* The Data Upload page with a file read into df (lines 54-56), or the
\* sample data loaded (79-81): data and current_step are assigned.
UploadData(df) ==
    /\ data_processor' = EnsureProcessor
    /\ data' = df
    /\ current_step' = Max(2, 1)
    /\ session_keys' = session_keys \cup {"data_processor", "data", "current_step"}
    /\ outcome' = "uploaded"
    /\ UNCHANGED <<column_mapping, processed_data, analysis_results,
                   analysis_complete, export_ready, ScriptVars>>

\* A page that stops at its prerequisite gate.
StopAtGate ==
    /\ outcome' = "gate"
    /\ UNCHANGED <<data, column_mapping, data_processor, processed_data,
                   analysis_results, analysis_complete, export_ready,
                   current_step, session_keys, ScriptVars>>

\* The Column Mapping page (2_Column_Mapping.py) with the transaction and
\* product columns selected and the quantity column selected or not: every
\* such run stores the mapping and sets current_step to 3.
ColumnMappingPage(quantity) ==
    IF "data" \notin session_keys
    THEN StopAtGate
    ELSE /\ data_processor' = EnsureProcessor
         /\ column_mapping' = Mapping(quantity)
         /\ current_step' = 3
         /\ session_keys' =
                session_keys \cup {"data_processor", "column_mapping", "current_step"}
         /\ outcome' = "mapped"
         /\ UNCHANGED <<data, processed_data, analysis_results,
                        analysis_complete, export_ready, ScriptVars>>

\* The Data Processing page (3_Data_Processing.py) with the button pressed.
DataProcessingPage(min_transaction_size) ==
    IF "data" \notin session_keys \/ "column_mapping" \notin session_keys
    THEN StopAtGate
    ELSE /\ StartDataProcessing(min_transaction_size)
         /\ session_keys' =
                IF outcome' = "processed"
                THEN session_keys \cup {"processed_data", "current_step"}
                ELSE session_keys
         /\ UNCHANGED presses

\* The gate of the Analysis Setup page (lines 10-14).
AnalysisGateOpen == "processed_data" \in session_keys

\* The Analysis Setup page (4_Analysis_Setup.py) up to its widgets: the gate,
\* then the script reads the stored transactions (None is not
\* subscriptable) and computes the advisor's suggestion.
OpenAnalysisSetup ==
    IF ~AnalysisGateOpen
    THEN StopAtGate
    ELSE IF processed_data = None
    THEN /\ outcome' = "script_exception"
         /\ UNCHANGED <<data, column_mapping, data_processor, processed_data,
                        analysis_results, analysis_complete, export_ready,
                        current_step, session_keys, ScriptVars>>
    ELSE /\ total_transactions' = Len(processed_data.transactions)
         /\ suggested_support' = ParameterAdvisor(total_transactions')
         /\ outcome' = IF suggested_support' = Raises("ZeroDivisionError")
                       THEN "script_exception" ELSE "shown"
         /\ UNCHANGED <<data, column_mapping, data_processor, processed_data,
                        analysis_results, analysis_complete, export_ready,
                        current_step, session_keys, min_support, max_len,
                        frequent_itemsets, presses>>

\* The page is on the screen for the processed data now stored: the run the
\* button starts passes the gate and computes the same suggestion again.
AnalysisSetupOnScreen ==
    /\ AnalysisGateOpen
    /\ processed_data # None
    /\ suggested_support # None
    /\ suggested_support # Raises("ZeroDivisionError")
    /\ total_transactions = Len(processed_data.transactions)

\* The Analysis Setup page with the Execute button pressed.
AnalysisSetupPage(algorithm, minsup, min_confidence, min_lift, maxlen) ==
    /\ AnalysisSetupOnScreen
    /\ ExecuteAnalysis(algorithm, minsup, min_confidence, min_lift, maxlen)
    /\ session_keys' =
           IF outcome' \in {"success", "partial_success"}
           THEN session_keys \cup {"analysis_results", "current_step",
                                   "analysis_complete", "export_ready"}
           ELSE session_keys
    /\ UNCHANGED presses

\* The gate of the pages 5 to 8.
ResultsGateOpen ==
    "analysis_results" \in session_keys /\ analysis_results # EmptyDict

\* The Results Dashboard, Advanced Visualizations and Business Insights
\* pages (page 5, 6, 7), run to their last line.
ResultsPage(page) ==
    IF ~ResultsGateOpen
    THEN StopAtGate
    ELSE /\ current_step' = Max(current_step, page)
         /\ outcome' = "viewed"
         /\ UNCHANGED <<data, column_mapping, data_processor, processed_data,
                        analysis_results, analysis_complete, export_ready,
                        session_keys, ScriptVars>>

\* The Download Center (8_Download_Center.py), run to its last line.
DownloadCenter ==
    IF ~ResultsGateOpen
    THEN StopAtGate
    ELSE /\ export_ready' = TRUE
         /\ current_step' = Max(current_step, 8)
         /\ session_keys' = session_keys \cup {"export_ready"}
         /\ outcome' = "viewed"
         /\ UNCHANGED <<data, column_mapping, data_processor, processed_data,
                        analysis_results, analysis_complete, ScriptVars>>

\* "New Analysis" in the Download Center: line 36 has set export_ready, the
\* button deletes every key but export_ready and switches to the Data
\* Upload page, whose run creates a processor and sets current_step.
NewAnalysis ==
    /\ ResultsGateOpen
    /\ export_ready' = TRUE
    /\ data' = <<>>
    /\ column_mapping' = EmptyDict
    /\ processed_data' = None
    /\ analysis_results' = EmptyDict
    /\ analysis_complete' = FALSE
    /\ data_processor' = DataProcessor
    /\ current_step' = 1
    /\ session_keys' = {"export_ready", "data_processor", "current_step"}
    /\ outcome' = "new_analysis"
    /\ UNCHANGED ScriptVars

NextSession ==
    \/ HomePage
    \/ OpenDataUpload
    \/ \E df \in UploadFrames : UploadData(df)
    \/ \E quantity \in SessionQuantities : ColumnMappingPage(quantity)
    \/ \E min_transaction_size \in SessionSizes :
           DataProcessingPage(min_transaction_size)
    \/ OpenAnalysisSetup
    \/ \E algorithm \in SessionAlgorithms, minsup \in SessionSupports,
          min_confidence \in SessionConfidences, min_lift \in SessionLifts,
          maxlen \in SessionMaxLens :
           AnalysisSetupPage(algorithm, minsup, min_confidence, min_lift, maxlen)
    \/ \E page \in 5..7 : ResultsPage(page)
    \/ DownloadCenter
    \/ NewAnalysis

SpecSession == InitSession /\ [][NextSession]_vars

----------------------------------------------------------------------------
\* Properties of the Frequent Itemset Table.

\* The fraction of the stored transactions that contain every item of S.
TxSupport(S) ==
    LET T == processed_data.transactions
    IN  Rat(Cardinality({i \in DOMAIN T : S \subseteq Range(T[i])}), Len(T))

Mined(a) == frequent_itemsets[a].returned
Table(a) == frequent_itemsets[a].table
PairsOf(table) == {<<table[i].itemsets, table[i].support>> : i \in DOMAIN table}

\* C1: on the same basket matrix, min_support and max_len, the Apriori run
\* and the FP-Growth run return the same set of (itemset, support) pairs.
C1_AlgorithmEquivalence ==
    (Mined("Apriori") /\ Mined("FP-Growth")) =>
        PairsOf(Table("Apriori")) = PairsOf(Table("FP-Growth"))

\* Both miners ran, some pair is frequent, some item that occurs is not, and
\* the two tables list their entries in different orders.
C1_Witness ==
    /\ Mined("Apriori") /\ Mined("FP-Growth")
    /\ \E S \in ItemsetsOf(Table("FP-Growth")) : Cardinality(S) = 2
    /\ \E x \in Items : /\ RGt(TxSupport({x}), Rat(0, 1))
                        /\ {x} \notin ItemsetsOf(Table("Apriori"))
    /\ Table("Apriori") # Table("FP-Growth")

\* C2: every returned entry is a non-empty itemset of at most max_len items,
\* its support is (transactions containing all its items) / (transactions),
\* and that support is >= min_support.
C2_TableSoundness ==
    \A a \in Algorithms : Mined(a) =>
        \A i \in DOMAIN Table(a) :
            LET row == Table(a)[i] IN
            /\ row.itemsets # {}
            /\ row.itemsets \subseteq Items
            /\ Cardinality(row.itemsets) <= max_len
            /\ row.support = TxSupport(row.itemsets)
            /\ RGeq(row.support, min_support)

\* A table with a pair of support below 1, over a matrix whose columns are
\* not the first items of the universe.
C2_Witness ==
    \E a \in Algorithms :
        /\ Mined(a)
        /\ \E i \in DOMAIN Table(a) :
              /\ Cardinality(Table(a)[i].itemsets) = 2
              /\ Table(a)[i].support # Rat(1, 1)
        /\ processed_data.basket_df.columns[1] # 1

\* C3: every non-empty itemset of at most max_len items whose support is
\* >= min_support appears in the returned table exactly once.
C3_TableCompleteness ==
    \A a \in Algorithms : Mined(a) =>
        \A S \in (SUBSET Items) \ {{}} :
            (Cardinality(S) <= max_len /\ RGeq(TxSupport(S), min_support)) =>
                Cardinality({i \in DOMAIN Table(a) :
                                Table(a)[i].itemsets = S}) = 1

\* A table holding a frequent itemset of exactly max_len >= 2 items while
\* another itemset of that size is not frequent.
C3_Witness ==
    \E a \in Algorithms :
        /\ Mined(a)
        /\ max_len >= 2
        /\ \E S \in ItemsetsOf(Table(a)) : Cardinality(S) = max_len
        /\ \E S \in SUBSET Items :
              /\ Cardinality(S) = max_len
              /\ RGt(TxSupport(S), Rat(0, 1))
              /\ ~RGeq(TxSupport(S), min_support)

\* C4: for every itemset I of the table and every non-empty proper subset S
\* of I, S is in the table too and support(S) >= support(I).
C4_DownwardClosure ==
    \A a \in Algorithms : Mined(a) =>
        LET table == Table(a) IN
        \A i \in DOMAIN table :
            \A S \in (SUBSET table[i].itemsets) \ {{}, table[i].itemsets} :
                /\ S \in ItemsetsOf(table)
                /\ RGeq(TableSupport(table, S), table[i].support)

\* A table with a three-item itemset one of whose subsets is strictly more
\* frequent than it.
C4_Witness ==
    \E a \in Algorithms :
        /\ Mined(a)
        /\ \E i \in DOMAIN Table(a) :
              /\ Cardinality(Table(a)[i].itemsets) = 3
              /\ \E S \in (SUBSET Table(a)[i].itemsets) \ {{}} :
                    /\ S \in ItemsetsOf(Table(a))
                    /\ RGt(TableSupport(Table(a), S),
                           Table(a)[i].support)

----------------------------------------------------------------------------
\* Properties of the stored analysis results.

Stored == analysis_results # EmptyDict
StoredTable == analysis_results.frequent_itemsets
StoredRules == analysis_results.rules
Params == analysis_results.parameters

\* What the rule-generation step returned in the run that stored the results.
GeneratedRules == association_rules(StoredTable, "confidence", Params.min_confidence)

\* The splits of the stored table's itemsets: <<itemset, antecedent>>.
StoredSplits ==
    {<<I, A>> \in ItemsetsOf(StoredTable) \X ((SUBSET Items) \ {{}}) :
        A \subseteq I /\ A # I}

SplitConfidence(I, A) == RDiv(TxSupport(I), TxSupport(A))
SplitLift(I, A) == RDiv(SplitConfidence(I, A), TxSupport(I \ A))

\* C5: for every rule of the rule-generation step, support = table support of
\* antecedent + consequent, confidence = support / table support of the
\* antecedent, lift = confidence / table support of the consequent.
C5_RuleMetricIdentities ==
    Stored =>
        \A r \in Range(GeneratedRules) \cup Range(StoredRules) :
            /\ r.support = TableSupport(StoredTable, r.antecedents \cup r.consequents)
            /\ r.confidence =
                  RDiv(r.support, TableSupport(StoredTable, r.antecedents))
            /\ r.lift =
                  RDiv(r.confidence, TableSupport(StoredTable, r.consequents))

\* A stored rule whose antecedent and consequent have different supports and
\* whose confidence and lift are both different from 1.
C5_Witness ==
    /\ Stored
    /\ \E r \in Range(StoredRules) :
          /\ r.antecedent_support # r.consequent_support
          /\ r.confidence # Rat(1, 1)
          /\ r.lift # Rat(1, 1)

\* C6: no stored rule has confidence < min_confidence or lift < min_lift.
C6_RuleThresholds ==
    Stored =>
        \A r \in Range(StoredRules) :
            /\ RGeq(r.confidence, Params.min_confidence)
            /\ RGeq(r.lift, Params.min_lift)

\* Rules are stored, the lift filter removed a generated rule, and the
\* confidence threshold rejected a split.
C6_Witness ==
    /\ Stored
    /\ StoredRules # <<>>
    /\ \E r \in Range(GeneratedRules) : ~RGeq(r.lift, Params.min_lift)
    /\ \E sp \in StoredSplits :
          ~RGeq(SplitConfidence(sp[1], sp[2]), Params.min_confidence)

\* C7: every emitted rule has a non-empty antecedent and a non-empty
\* consequent, the two are disjoint, and their union is an itemset of the
\* table the rules were generated from.
C7_RuleWellFormed ==
    Stored =>
        \A r \in Range(GeneratedRules) \cup Range(StoredRules) :
            /\ r.antecedents # {}
            /\ r.consequents # {}
            /\ r.antecedents \cap r.consequents = {}
            /\ (r.antecedents \cup r.consequents) \in ItemsetsOf(StoredTable)

\* Stored rules over a three-item itemset, one with a two-item antecedent and
\* one with a two-item consequent.
C7_Witness ==
    /\ Stored
    /\ \E r \in Range(StoredRules) :
          Cardinality(r.antecedents) = 2 /\ Cardinality(r.consequents) = 1
    /\ \E r \in Range(StoredRules) :
          Cardinality(r.antecedents) = 1 /\ Cardinality(r.consequents) = 2

\* C8: for every table itemset of two or more items and every split of it,
\* the rule is in the result exactly once if confidence >= min_confidence and
\* lift >= min_lift, and not at all otherwise.
C8_RuleCompleteness ==
    Stored =>
        \A sp \in StoredSplits :
            Cardinality({j \in DOMAIN StoredRules :
                            /\ StoredRules[j].antecedents = sp[2]
                            /\ StoredRules[j].consequents = sp[1] \ sp[2]})
              = IF /\ RGeq(SplitConfidence(sp[1], sp[2]), Params.min_confidence)
                   /\ RGeq(SplitLift(sp[1], sp[2]), Params.min_lift)
                THEN 1 ELSE 0

\* A run that kept a split whose lift equals min_lift, rejected a split on
\* confidence, and rejected a split on lift alone.
C8_Witness ==
    /\ Stored
    /\ \E r \in Range(StoredRules) : r.lift = Params.min_lift
    /\ \E sp \in StoredSplits :
          ~RGeq(SplitConfidence(sp[1], sp[2]), Params.min_confidence)
    /\ \E sp \in StoredSplits :
          /\ RGeq(SplitConfidence(sp[1], sp[2]), Params.min_confidence)
          /\ ~RGeq(SplitLift(sp[1], sp[2]), Params.min_lift)

\* The scenario's expected Frequent Itemset Table, as (itemset, support) pairs.
ScenarioTable ==
    {<<{Bread}, Rat(4, 5)>>, <<{Milk}, Rat(4, 5)>>, <<{Eggs}, Rat(4, 5)>>,
     <<{Bread, Milk}, Rat(3, 5)>>, <<{Bread, Eggs}, Rat(3, 5)>>,
     <<{Milk, Eggs}, Rat(3, 5)>>, <<{Bread, Milk, Eggs}, Rat(2, 5)>>}

\* An analysis run on the scenario's transactions stored its results.
ScenarioStored == Stored /\ processed_data.transactions = Scenario

\* rules holds the rule antecedent -> consequent with that confidence.
HasRule(rules, antecedent, consequent, confidence) ==
    \E r \in Range(rules) : /\ r.antecedents = antecedent
                            /\ r.consequents = consequent
                            /\ r.confidence = confidence

\* C9 as stated: an analysis run on the scenario (the table is the same for
\* min_support 0.4 and for every value the min_support slider offers) with
\* min_confidence 0.7 keeps {Bread} -> {Milk} and {Milk} -> {Eggs}, each with
\* confidence 0.75.
C9_AsStated ==
    (ScenarioStored /\ Params.max_len >= 3 /\ Params.min_confidence = Rat(7, 10)) =>
        /\ PairsOf(StoredTable) = ScenarioTable
        /\ HasRule(StoredRules, {Bread}, {Milk}, Rat(3, 4))
        /\ HasRule(StoredRules, {Milk}, {Eggs}, Rat(3, 4))

\* C9, amended: on the scenario with max_len >= 3 the table is the expected
\* one, for min_support 0.4 as for the slider's values; with min_confidence
\* 0.7 the rule generator returns six rules, {Bread} -> {Milk} and
\* {Milk} -> {Eggs} among them, each with confidence 0.75 and lift 0.9375;
\* the run's lift filter (min_lift >= 1.0) removes all six and the stored
\* rule collection is empty.
C9_ScenarioRun ==
    (ScenarioStored /\ Params.max_len >= 3) =>
        /\ \A a \in Algorithms :
              PairsOf(MineFrequentItemsets(a, processed_data.basket_df,
                                           Rat(2, 5), Params.max_len))
                = ScenarioTable
        /\ PairsOf(StoredTable) = ScenarioTable
        /\ Params.min_confidence = Rat(7, 10) =>
              /\ Len(GeneratedRules) = 6
              /\ HasRule(GeneratedRules, {Bread}, {Milk}, Rat(3, 4))
              /\ HasRule(GeneratedRules, {Milk}, {Eggs}, Rat(3, 4))
              /\ \A r \in Range(GeneratedRules) : r.lift = Rat(15, 16)
              /\ StoredRules = <<>>

\* The run on the scenario with min_confidence 0.7 and max_len >= 3 ended
\* with frequent itemsets and no rules.
C9_Witness ==
    /\ ScenarioStored
    /\ Params.max_len >= 3
    /\ Params.min_confidence = Rat(7, 10)
    /\ outcome = "partial_success"

----------------------------------------------------------------------------
\* Properties of the Basket Matrix.

\* The distinct items of a transaction list.
ItemUniverse(transactions) ==
    UNION {Range(transactions[t]) : t \in DOMAIN transactions}

\* The matrix has one row per transaction, in the list's order, one column
\* per distinct item, ascending, and cell (t, c) tells whether column c's
\* item is in transaction t.
BasketMatrixOf(transactions, basket) ==
    /\ Len(basket.values) = Len(transactions)
    /\ {basket.columns[c] : c \in DOMAIN basket.columns} = ItemUniverse(transactions)
    /\ Len(basket.columns) = Cardinality(ItemUniverse(transactions))
    /\ \A c, d \in DOMAIN basket.columns : c < d => basket.columns[c] < basket.columns[d]
    /\ \A t \in DOMAIN transactions :
          /\ DOMAIN basket.values[t] = DOMAIN basket.columns
          /\ \A c \in DOMAIN basket.columns :
                basket.values[t][c] <=> basket.columns[c] \in Range(transactions[t])

\* process_data encoded at its last call, and the page ran on its result.
Encoded == outcome \in {"processed", "no_transactions"}

\* C10: after encoding, in process_data (the processor's transactions and
\* basket_encoded) and in the page's filter and re-encoding (the processed
\* data of the processor and of the session), the basket matrix has one row
\* per transaction in the order of the transaction list, one column per
\* distinct item in ascending order, and cell (t, i) is true iff item i is
\* in transaction t.
C10_BasketMatrix ==
    /\ Encoded =>
          /\ BasketMatrixOf(data_processor.transactions,
                            data_processor.basket_encoded)
          /\ BasketMatrixOf(data_processor.processed_data.transactions,
                            data_processor.processed_data.basket_df)
    /\ processed_data # None =>
          BasketMatrixOf(processed_data.transactions, processed_data.basket_df)

\* The filter removed a transaction and the re-encoding a column, and a
\* stored transaction lists its items in another order than the columns.
C10_Witness ==
    /\ outcome = "processed"
    /\ \E t \in DOMAIN processed_data.transactions :
          Len(processed_data.transactions[t]) = 2
    /\ Len(processed_data.basket_df.columns) < Len(data_processor.basket_encoded.columns)
    /\ \E t \in DOMAIN processed_data.transactions :
          /\ Len(processed_data.transactions[t]) = 2
          /\ processed_data.transactions[t][1] > processed_data.transactions[t][2]

----------------------------------------------------------------------------
\* Properties of the stored results.

\* The position of the rule with r's antecedent and consequent in rules.
PositionIn(rules, r) ==
    CHOOSE i \in DOMAIN rules : /\ rules[i].antecedents = r.antecedents
                                /\ rules[i].consequents = r.consequents

\* C11: the stored rules are ordered by confidence descending, then lift
\* descending, and rules equal in both keep the order in which the rule
\* generator produced them.
C11_RuleOrdering ==
    Stored =>
        \A i, j \in DOMAIN StoredRules :
            i < j =>
                /\ RGeq(StoredRules[i].confidence, StoredRules[j].confidence)
                /\ StoredRules[i].confidence = StoredRules[j].confidence =>
                      RGeq(StoredRules[i].lift, StoredRules[j].lift)
                /\ (/\ StoredRules[i].confidence = StoredRules[j].confidence
                    /\ StoredRules[i].lift = StoredRules[j].lift) =>
                      PositionIn(GeneratedRules, StoredRules[i])
                        < PositionIn(GeneratedRules, StoredRules[j])

\* The sort moved a rule, and two stored rules are equal in confidence and
\* lift while a third differs.
C11_Witness ==
    /\ Stored
    /\ StoredRules # FilterByLift(GeneratedRules, Params.min_lift)
    /\ \E i, j, k \in DOMAIN StoredRules :
          /\ i < j
          /\ StoredRules[i].confidence = StoredRules[j].confidence
          /\ StoredRules[i].lift = StoredRules[j].lift
          /\ StoredRules[k].confidence # StoredRules[i].confidence

\* The supports of the single items of the processed transactions.
ItemSupports ==
    {TxSupport({i}) : i \in ItemUniverse(processed_data.transactions)}

\* C12: finding nothing is not an error.  Either miner returns the empty
\* table when no itemset reaches min_support (on the scenario, for
\* min_support 0.9); a run ends with the no-patterns warning exactly when no
\* item reaches the min_support it was given, it stores nothing and never
\* ends as an error; a run whose filters leave no rule stores the table
\* with an empty rule collection and completes.
C12_NoResultsNotError ==
    /\ outcome # "error"
    /\ processed_data.transactions = Scenario =>
          \A a \in Algorithms, m \in MaxLenSliderValues :
              MineFrequentItemsets(a, processed_data.basket_df, Rat(9, 10), m) = <<>>
    /\ outcome = "no_itemsets" =>
          /\ \E ms \in SupportSliderValues :
                \A sup \in ItemSupports : ~RGeq(sup, ms)
          /\ analysis_results = EmptyDict
          /\ ~analysis_complete
    /\ Stored => \E sup \in ItemSupports : RGeq(sup, Params.min_support)
    /\ outcome = "partial_success" =>
          /\ Stored
          /\ StoredTable # <<>>
          /\ StoredRules = <<>>
          /\ FilterByLift(GeneratedRules, Params.min_lift) = <<>>
          /\ analysis_complete /\ export_ready /\ current_step = 5
    /\ (Stored /\ FilterByLift(GeneratedRules, Params.min_lift) = <<>>) =>
          outcome = "partial_success"

\* A run on the sparse data ended with the no-patterns warning.
C12_Witness ==
    /\ outcome = "no_itemsets"
    /\ processed_data.transactions = Sparse

\* C13: a run of the analysis in which mining or rule generation fails
\* stores no table and no rules of that run: the stored analysis results,
\* analysis_complete and export_ready (and current_step) are what they were
\* before the run.
C13_FailureAtomicity ==
    [][outcome' = "error" =>
          /\ analysis_results' = analysis_results
          /\ analysis_complete' = analysis_complete
          /\ export_ready' = export_ready
          /\ current_step' = current_step]_vars

\* A run failed after an earlier run had stored its results.
C13_Witness ==
    /\ outcome = "error"
    /\ Stored
    /\ StoredRules # <<>>
    /\ analysis_complete

----------------------------------------------------------------------------
\* Properties of the Parameter Advisor.

\* C15: for every transaction count N >= 1 the suggested min_support is
\* clamp(20/N, 0.001, 0.05): 0.05 when N <= 400, 0.001 when N >= 20000,
\* 20/N otherwise; it lies in [0.001, 0.05].
C15_AdvisorValue ==
    (outcome # "idle" /\ total_transactions >= 1) =>
        /\ outcome = "shown"
        /\ suggested_support =
              Returns(IF total_transactions <= 400 THEN Rat(1, 20)
                      ELSE IF total_transactions >= 20000 THEN Rat(1, 1000)
                      ELSE Rat(20, total_transactions))
        /\ RGeq(suggested_support.value, Rat(1, 1000))
        /\ RGeq(Rat(1, 20), suggested_support.value)

\* The advisor suggested 20/N, between the two clamps.
C15_Witness ==
    /\ outcome = "shown"
    /\ total_transactions = 1000
    /\ suggested_support = Returns(Rat(1, 50))

----------------------------------------------------------------------------
\* Properties of process_data.

\* A row of the uploaded frame that yields an item of a transaction: it has
\* an id and a product text with a word in it.
Usable(row) ==
    /\ row.TransactionID # NaN
    /\ row.Product # NaN
    /\ \A text \in Range(row.Product) : text.name # NaN

Steps == data_processor.preprocessing_steps

\* C17: when cleaning leaves no transaction to encode, process_data returns
\* False (as it does otherwise only when a mapped quantity is infinite on a
\* row that cleaning keeps): the error is the last step recorded, no
\* basket matrix and no processed data are produced, and nothing is stored
\* for the analysis, so the outcome cannot be taken for a run of the
\* analysis that finds nothing.
C17_EmptyInputIsError ==
    /\ outcome # "idle" =>
          (outcome = "processing_failed"
             <=> \/ \A i \in DOMAIN data : ~Usable(data[i])
                 \/ /\ column_mapping.quantity # "None"
                    /\ \E i \in DOMAIN data :
                          Usable(data[i]) /\ data[i].Quantity = Infinite)
    /\ outcome = "processing_failed" =>
          /\ Steps # <<>>
          /\ Steps[Len(Steps)] = "error"
          /\ data_processor.basket_encoded = None
          /\ data_processor.processed_data = None
          /\ processed_data = None
          /\ current_step = 3
    /\ outcome \in {"processed", "no_transactions"} =>
          /\ \A k \in DOMAIN Steps : Steps[k] # "error"
          /\ data_processor.basket_encoded # None

\* process_data failed on a frame whose rows have ids and products, after
\* cleaning had emptied every product.
C17_Witness ==
    /\ outcome = "processing_failed"
    /\ \A i \in DOMAIN data : data[i].TransactionID # NaN /\ data[i].Product # NaN
    /\ \A i \in DOMAIN data : ~Usable(data[i])
    /\ Len(data) > 1
    /\ Len(Steps) > 2

\* A transaction list whose transactions each hold at least one item and no
\* item twice.
DuplicateFree(transactions) ==
    \A t \in DOMAIN transactions :
        /\ Len(transactions[t]) >= 1
        /\ \A j, k \in DOMAIN transactions[t] :
              j # k => transactions[t][j] # transactions[t][k]

\* C18: every transaction made by process_data, and by the page's filter on
\* the transaction size, holds at least one item and no item more than
\* once, whatever duplicate rows and quantities the frame carries.
C18_TransactionsDuplicateFree ==
    /\ Encoded =>
          /\ DuplicateFree(data_processor.transactions)
          /\ DuplicateFree(data_processor.processed_data.transactions)
    /\ processed_data # None => DuplicateFree(processed_data.transactions)

\* The frame repeated a product of a transaction, once spelled otherwise,
\* quantities expanded its rows, and the transaction of three rows was
\* stored with its two items.
C18_Witness ==
    /\ outcome = "processed"
    /\ column_mapping.quantity = "Quantity"
    /\ \E k \in DOMAIN Steps : Steps[k] = "expanded"
    /\ \E i, j \in DOMAIN data :
          /\ i < j
          /\ Usable(data[i]) /\ Usable(data[j])
          /\ data[i].TransactionID = data[j].TransactionID
          /\ data[i].Product # data[j].Product
          /\ clean_text_data(data[i].Product) = clean_text_data(data[j].Product)
    /\ \E t \in DOMAIN processed_data.transactions :
          Len(processed_data.transactions[t]) = 2

----------------------------------------------------------------------------
\* Termination of the miners.

LevelWise == frequent_itemsets["Apriori"]
TreeProjection == frequent_itemsets["FP-Growth"]
NItems == NCols(processed_data.basket_df)
RoundLimit == (IF max_len < NItems THEN max_len ELSE NItems) + 1

\* C21: the level-wise loop does at most min(max_len, number of items) + 1
\* rounds and ends with the table of the apriori call; every call of the
\* tree-projection recursion is on a non-empty tree with a suffix shorter
\* than max_len, and the run ends with the pairs of the fpgrowth call; and
\* both runs do end.
C21_MiningTerminates ==
    /\ [](/\ LevelWise.round <= RoundLimit
          /\ LevelWise.done =>
                AprioriTable(processed_data.basket_df, LevelWise, TRUE)
                  = apriori(processed_data.basket_df, min_support, TRUE, max_len)
          /\ \A c \in DOMAIN TreeProjection.calls :
                /\ Cardinality(TreeProjection.calls[c].suffix) < max_len
                /\ c > 1 => DOMAIN TreeProjection.calls[c].tree # {}
          /\ TreeProjection.returned =>
                PairsOf(TreeProjection.table)
                  = PairsOf(fpgrowth(processed_data.basket_df, min_support,
                                     TRUE, max_len)))
    /\ <>(LevelWise.done /\ TreeProjection.returned)

\* Both runs have ended: the level-wise loop in the round after the last
\* item (no candidate left), and the tree-projection recursion with an
\* itemset of all three items.
C21_Witness ==
    /\ LevelWise.done
    /\ TreeProjection.returned
    /\ NItems = 3
    /\ max_len > NItems
    /\ LevelWise.round = NItems + 1
    /\ \E i \in DOMAIN TreeProjection.table :
          Cardinality(TreeProjection.table[i].itemsets) = 3

----------------------------------------------------------------------------
\* Properties of the session.

\* C23 as stated: when a call of process_data returns False, the
\* processor's transactions, basket_encoded and processed_data are what they
\* were before the call.
C23_AsStated ==
    [][outcome' = "processing_failed" =>
          /\ data_processor'.transactions = data_processor.transactions
          /\ data_processor'.basket_encoded = data_processor.basket_encoded
          /\ data_processor'.processed_data = data_processor.processed_data]_vars

\* The ends of a run of the Analysis Setup page that got past its gate.
PastAnalysisGate ==
    outcome \in {"shown", "script_exception", "success", "partial_success",
                 "no_itemsets"}

C25_AsStated ==
    ResultsGateOpen =>
        /\ "processed_data" \in session_keys
        /\ PairsOf(analysis_results.frequent_itemsets) =
               PairsOf(MineFrequentItemsets(analysis_results.algorithm,
                                            processed_data.basket_df,
                                            analysis_results.parameters.min_support,
                                            analysis_results.parameters.max_len))

\* Confidence and lift of a split, from the supports of the stored table.
TableConfidence(I, A) ==
    RDiv(TableSupport(StoredTable, I), TableSupport(StoredTable, A))
TableLift(I, A) == RDiv(TableConfidence(I, A), TableSupport(StoredTable, I \ A))

\* C26: whenever analysis results are stored, the stored table is not empty
\* and the stored rules are exactly the splits of the stored table's itemsets
\* whose confidence is at least the stored min_confidence and whose lift is
\* at least the stored min_lift, each once and with the table's metrics.
C26_ResultsConsistent ==
    ResultsGateOpen =>
        /\ Len(StoredTable) >= 1
        /\ \A sp \in StoredSplits :
              Cardinality({j \in DOMAIN StoredRules :
                              /\ StoredRules[j].antecedents = sp[2]
                              /\ StoredRules[j].consequents = sp[1] \ sp[2]})
                = IF /\ RGeq(TableConfidence(sp[1], sp[2]), Params.min_confidence)
                     /\ RGeq(TableLift(sp[1], sp[2]), Params.min_lift)
                  THEN 1 ELSE 0
        /\ \A r \in Range(StoredRules) :
              LET I == r.antecedents \cup r.consequents
              IN  /\ <<I, r.antecedents>> \in StoredSplits
                  /\ r.consequents = I \ r.antecedents
                  /\ r.support = TableSupport(StoredTable, I)
                  /\ r.confidence = TableConfidence(I, r.antecedents)
                  /\ r.lift = TableLift(I, r.antecedents)

\* Results with a kept rule and a split rejected on confidence, stored next
\* to the processed data of a file that was uploaded later.
C26_Witness ==
    /\ ResultsGateOpen
    /\ "processed_data" \in session_keys
    /\ Bread \in UNION ItemsetsOf(StoredTable)
    /\ Bread \notin Range(processed_data.basket_df.columns)
    /\ Len(StoredRules) >= 1
    /\ \E sp \in StoredSplits :
          ~RGeq(TableConfidence(sp[1], sp[2]), Params.min_confidence)

\* C27 as stated: after a successful run of the Data Processing page, the
\* transaction count and the product count of get_processing_summary are the
\* number of transactions and of basket-matrix columns of the processed data
\* stored in the session.
C27_AsStated ==
    outcome = "processed" =>
        LET summary == get_processing_summary(data_processor)
        IN  /\ summary # None
            /\ summary.total_transactions = Len(processed_data.transactions)
            /\ summary.unique_products = NCols(processed_data.basket_df)

\* C28 as stated: with the Quantity column mapped, process_data succeeds or
\* fails as it does with no Quantity column mapped, and on success leaves the
\* same transaction list and the same basket matrix.
C28_AsStated ==
    (outcome # "idle" /\ column_mapping.quantity # "None") =>
        LET unmapped == process_data(DataProcessor, data, Mapping("None"))
        IN  /\ (outcome # "processing_failed") = unmapped.ret
            /\ unmapped.ret =>
                  /\ data_processor.transactions = unmapped.self.transactions
                  /\ data_processor.basket_encoded = unmapped.self.basket_encoded

\* C29 as stated: export_ready is true only if non-empty analysis results
\* are stored.
C29_AsStated == export_ready => ResultsGateOpen

\* C30 as stated: in a step that is not a reset ("New Analysis"),
\* current_step does not decrease.
C30_AsStated ==
    [][outcome' = "new_analysis" \/ current_step' >= current_step]_vars

====
